---- MODULE Spec2Model ----
(***************************************************************************)
(* Model of the chat relay in src/client/MITIRI/src/App.jsx: the socket.io *)
(* server (lines 272-439: the users / messages / typingUsers stores, the   *)
(* seven socket handlers, the history route) and the App of each socket    *)
(* (lines 1-109: join form, message and user lists, mark-seen effect).     *)
(* A JS object with string keys is the sequence of its entries in          *)
(* insertion order, the order Object.values / Object.entries return.       *)
(***************************************************************************)
EXTENDS Integers, Sequences, FiniteSets, TLC

\* ---------------------------------------------------------------- bounds
\* Largest value the wall clock (Date.now()) takes; it starts at 1.
MaxClock == 2
\* Number of messages appended over a behaviour.
MaxSent == 3
\* Total of the reaction counts held by the stored messages.
MaxReact == 2
\* Messages sent, and reactions held, where routing is explored.
MaxRouted == 1
\* Longest string typed into the username field.
MaxNameLen == 2
\* The store's capacity.  The source has 200 (line 357); the model keeps
\* the comparison and the shift and scales the number down.
Capacity == 2

\* ---------------------------------------------------------- input domains
Conns == {"s1", "s2"}
Rooms == {"General", "Dev"}
Names == {"alice", "bob"}
Emojis == {"up", "heart"}
Undefined == "undefined"
\* Payloads of send_message: text only, image only, neither.
SendData ==
  { [text |-> "hi", image |-> ""],
    [text |-> "", image |-> "/uploads/1-a.png"],
    [text |-> "", image |-> ""] }

VARIABLES
  status,       \* socket of each connection id: "new", "open", "closed"
  users,        \* const users = {}        (entries in insertion order)
  messages,     \* const messages = []
  typingUsers,  \* const typingUsers = {}  (entries in insertion order)
  rooms,        \* socket.io adapter: the rooms each socket has joined
  clock,        \* Date.now()
  hist,         \* history, parallel to messages: append number, reacts seen
  nsent,        \* history: number of messages appended so far
  out,          \* the emissions of the last handler, in order
  ev,           \* the last event handled: its name and its socket
  gone,         \* history: the ids of the messages shifted out of the store
  client        \* the App of each socket: its users, messages, unsent emits

vars == <<status, users, messages, typingUsers, rooms, clock, hist, nsent, out, ev,
          gone, client>>

\* ------------------------------------------------------ JS object helpers
\* key in obj
Has(obj, id) == \E i \in 1..Len(obj) : obj[i].id = id
\* obj[key], for a key that is present
Get(obj, id) == obj[CHOOSE i \in 1..Len(obj) : obj[i].id = id]
\* Faulty variant: the entry is always added, as a list push would.
Put_Push(obj, entry) == Append(obj, entry)

\* obj[key] = entry: an existing key keeps its place, a new one goes last
Put(obj, entry) ==
  IF Has(obj, entry.id)
  THEN [i \in 1..Len(obj) |-> IF obj[i].id = entry.id THEN entry ELSE obj[i]]
  ELSE Append(obj, entry)
\* delete obj[key]
Delete(obj, id) == SelectSeq(obj, LAMBDA e : e.id # id)
\* a field of a payload, undefined when the payload lacks it
Field(data, k) == IF k \in DOMAIN data THEN data[k] ELSE Undefined
\* array.includes(x)
Includes(arr, x) == \E i \in 1..Len(arr) : arr[i] = x

\* ------------------------------------------------------- socket.io helpers
\* io.to(room): the connected sockets that joined the room
InRoom(rms, st, room) == {c \in Conns : st[c] = "open" /\ room \in rms[c]}
\* one emission: event name, addressed room or socket, receivers, payload
Emit(name, target, receivers, payload) ==
  [name |-> name, target |-> target, to |-> receivers, payload |-> payload]

\* Object.values(users).filter(u => u.room === room)
RoomUsers(us, room) == SelectSeq(us, LAMBDA u : u.room = room)

\* messages.find(m => m.id === messageId): index of the first match, 0 if none
FindIndex(msgs, messageId) ==
  IF \E i \in 1..Len(msgs) : msgs[i].id = messageId
  THEN CHOOSE i \in 1..Len(msgs) :
         /\ msgs[i].id = messageId
         /\ \A j \in 1..(i - 1) : msgs[j].id # messageId
  ELSE 0

\* app.get('/api/messages'): the history query
ApiMessages(msgs, room) == SelectSeq(msgs, LAMBDA m : m.room = room)

NoReactions == [e \in Emojis |-> 0]

\* The App's state on mount (lines 10-11): no messages, no users; the history
\* fetch is under way and nothing has been emitted.
Mounted == [fetched |-> FALSE, users |-> << >>, messages |-> << >>, pend |-> << >>]

Init ==
  /\ status = [c \in Conns |-> "new"]
  /\ users = << >>
  /\ messages = << >>
  /\ typingUsers = << >>
  /\ rooms = [c \in Conns |-> {}]
  /\ clock = 1
  /\ hist = << >>
  /\ nsent = 0
  /\ out = << >>
  /\ ev = [op |-> "init", c |-> Undefined]
  /\ gone = {}
  /\ client = [c \in Conns |-> Mounted]

\* The wall clock advances between two events.
Tick ==
  /\ clock < MaxClock
  /\ clock' = clock + 1
  /\ out' = << >>
  /\ ev' = [op |-> "tick", c |-> Undefined]
  /\ UNCHANGED <<status, users, messages, typingUsers, rooms, hist, nsent>>

\* io.on('connection'): a socket with a fresh id, its handlers registered
Connect(c) ==
  /\ status[c] = "new"
  /\ status' = [status EXCEPT ![c] = "open"]
  /\ out' = << >>
  /\ ev' = [op |-> "connect", c |-> c]
  /\ UNCHANGED <<users, messages, typingUsers, rooms, clock, hist, nsent>>

\* socket.on('user_join')
Join(c, username, room) ==
  /\ status[c] = "open"
  /\ users' = Put(users, [username |-> username, room |-> room, id |-> c])
  /\ rooms' = [rooms EXCEPT ![c] = @ \cup {room}]
  /\ out' = << Emit("user_list", room, InRoom(rooms', status, room),
                    RoomUsers(users', room)),
               Emit("user_joined", room, InRoom(rooms', status, room),
                    [username |-> username, id |-> c]) >>
  /\ ev' = [op |-> "user_join", c |-> c]
  /\ UNCHANGED <<status, messages, typingUsers, clock, hist, nsent>>

\* Faulty variant: the newest entry is dropped when the store is full (pop for shift).
Push_Pop(msgs, msg) ==
  IF Len(msgs) + 1 > Capacity THEN msgs ELSE Append(msgs, msg)

\* messages.push(msg); if (messages.length > 200) messages.shift();
Push(msgs, msg) ==
  IF Len(msgs) + 1 > Capacity THEN Tail(Append(msgs, msg)) ELSE Append(msgs, msg)

\* Faulty variant: the message starts with nobody having seen it.
StoreAndBroadcast_Unseen(c, data, username, room) ==
  LET msg == [id |-> clock,
              sender |-> username,
              senderId |-> c,
              room |-> room,
              timestamp |-> clock,
              text |-> data.text,
              image |-> data.image,
              reactions |-> NoReactions,
              seenBy |-> << >>]
  IN /\ messages' = Push(messages, msg)
     /\ hist' = Push(hist, [seq |-> nsent + 1, reacted |-> NoReactions])
     /\ nsent' = nsent + 1
     /\ out' = << Emit("receive_message", room, InRoom(rooms, status, room), msg) >>
     /\ UNCHANGED <<status, users, typingUsers, rooms, clock>>

\* send_message past its guard (lines 345-359): build, store, broadcast
StoreAndBroadcast(c, data, username, room) ==
  LET msg == [id |-> clock,
              sender |-> username,
              senderId |-> c,
              room |-> room,
              timestamp |-> clock,
              text |-> data.text,
              image |-> data.image,
              reactions |-> NoReactions,
              seenBy |-> <<username>>]
  IN /\ messages' = Push(messages, msg)
     /\ hist' = Push(hist, [seq |-> nsent + 1, reacted |-> NoReactions])
     /\ nsent' = nsent + 1
     /\ out' = << Emit("receive_message", room, InRoom(rooms, status, room), msg) >>
     /\ UNCHANGED <<status, users, typingUsers, rooms, clock>>

\* Faulty variant: the sender falls back to 'Anonymous' as in private_message.
SendMessage_Anonymous(c, data) ==
  /\ status[c] = "open"
  /\ ev' = [op |-> "send_message", c |-> c]
  /\ IF Has(users, c)
     THEN StoreAndBroadcast(c, data, Get(users, c).username, Get(users, c).room)
     ELSE StoreAndBroadcast(c, data, "Anonymous", Undefined)

\* socket.on('send_message')
SendMessage(c, data) ==
  /\ status[c] = "open"
  /\ ev' = [op |-> "send_message", c |-> c]
  /\ IF ~Has(users, c)
     THEN /\ out' = << >>
          /\ UNCHANGED <<status, users, messages, typingUsers, rooms, clock,
                         hist, nsent>>
     ELSE StoreAndBroadcast(c, data, Get(users, c).username, Get(users, c).room)

\* Faulty variant: the message goes to the sender's room, as send_message does.
PrivateMessage_ToRoom(c, data) ==
  /\ status[c] = "open"
  /\ LET to == Field(data, "to")
         msg == [id |-> clock,
                 sender |-> IF Has(users, c) THEN Get(users, c).username
                            ELSE "Anonymous",
                 senderId |-> c,
                 message |-> Field(data, "message"),
                 image |-> Field(data, "image"),
                 isPrivate |-> TRUE,
                 timestamp |-> clock]
     IN out' = << Emit("private_message", to,
                       {d \in Conns : status[d] = "open" /\ rooms[d] # {}} \ {c}, msg),
                  Emit("private_message", c, {c}, msg) >>
  /\ ev' = [op |-> "private_message", c |-> c]
  /\ UNCHANGED <<status, users, messages, typingUsers, rooms, clock, hist, nsent>>

\* socket.on('private_message'): no check that the sender has joined
PrivateMessage(c, data) ==
  /\ status[c] = "open"
  /\ LET to == Field(data, "to")
         msg == [id |-> clock,
                 sender |-> IF Has(users, c) THEN Get(users, c).username
                            ELSE "Anonymous",
                 senderId |-> c,
                 message |-> Field(data, "message"),
                 image |-> Field(data, "image"),
                 isPrivate |-> TRUE,
                 timestamp |-> clock]
     IN out' = << Emit("private_message", to,
                       {d \in Conns : d = to /\ status[d] = "open"} \ {c}, msg),
                  Emit("private_message", c, {c}, msg) >>
  /\ ev' = [op |-> "private_message", c |-> c]
  /\ UNCHANGED <<status, users, messages, typingUsers, rooms, clock, hist, nsent>>

\* Faulty variant: the typing names of every room are listed.
RoomTyping_NoFilter(ty, us, room) ==
  [i \in 1..Len(ty) |-> ty[i].name]

\* Object.entries(typingUsers).filter(([id]) => users[id]?.room === room)
\*   .map(([_, name]) => name)
RoomTyping(ty, us, room) ==
  LET kept == SelectSeq(ty, LAMBDA t : Has(us, t.id) /\ Get(us, t.id).room = room)
  IN [i \in 1..Len(kept) |-> kept[i].name]

\* socket.on('typing')
Typing(c, isTyping) ==
  /\ status[c] = "open"
  /\ ev' = [op |-> "typing", c |-> c]
  /\ IF ~Has(users, c)
     THEN /\ out' = << >>
          /\ UNCHANGED typingUsers
     ELSE LET user == Get(users, c)
          IN /\ typingUsers' = IF isTyping
                               THEN Put(typingUsers, [id |-> c, name |-> user.username])
                               ELSE Delete(typingUsers, c)
             /\ out' = << Emit("typing_users", user.room,
                               InRoom(rooms, status, user.room),
                               RoomTyping(typingUsers', users, user.room)) >>
  /\ UNCHANGED <<status, users, messages, rooms, clock, hist, nsent>>

\* history: every stored message carrying the id counts one more React for it
NoteReact(h, msgs, messageId, emoji) ==
  [i \in 1..Len(h) |->
     IF msgs[i].id = messageId
     THEN [h[i] EXCEPT !.reacted[emoji] = @ + 1]
     ELSE h[i]]

\* socket.on('message_reaction'): no check that the sender has joined
MessageReaction(c, messageId, emoji) ==
  /\ status[c] = "open"
  /\ ev' = [op |-> "message_reaction", c |-> c]
  /\ LET i == FindIndex(messages, messageId)
     IN IF i # 0
        THEN /\ messages' = [messages EXCEPT ![i].reactions[emoji] = @ + 1]
             /\ out' = << Emit("receive_message", messages[i].room,
                               InRoom(rooms, status, messages[i].room),
                               messages'[i]) >>
        ELSE /\ out' = << >>
             /\ UNCHANGED messages
  /\ hist' = NoteReact(hist, messages, messageId, emoji)
  /\ UNCHANGED <<status, users, typingUsers, rooms, clock, nsent>>

\* Faulty variant: the name is pushed without the includes() test.
MessageSeen_NoIncludes(c, messageId) ==
  /\ status[c] = "open"
  /\ ev' = [op |-> "message_seen", c |-> c]
  /\ LET i == FindIndex(messages, messageId)
     IN IF Has(users, c) /\ i # 0
        THEN /\ messages' = [messages EXCEPT
                               ![i].seenBy = Append(@, Get(users, c).username)]
             /\ out' = << Emit("message_seen_update", messages[i].room,
                               InRoom(rooms, status, messages[i].room),
                               [messageId |-> messageId,
                                seenBy |-> messages'[i].seenBy]) >>
        ELSE /\ out' = << >>
             /\ UNCHANGED messages
  /\ UNCHANGED <<status, users, typingUsers, rooms, clock, hist, nsent>>

\* Faulty variant: the update is emitted whether or not the name was added.
MessageSeen_AlwaysEmits(c, messageId) ==
  /\ status[c] = "open"
  /\ ev' = [op |-> "message_seen", c |-> c]
  /\ LET i == FindIndex(messages, messageId)
     IN IF Has(users, c) /\ i # 0
        THEN /\ messages' = IF Includes(messages[i].seenBy, Get(users, c).username)
                            THEN messages
                            ELSE [messages EXCEPT
                                    ![i].seenBy = Append(@, Get(users, c).username)]
             /\ out' = << Emit("message_seen_update", messages[i].room,
                               InRoom(rooms, status, messages[i].room),
                               [messageId |-> messageId,
                                seenBy |-> messages'[i].seenBy]) >>
        ELSE /\ out' = << >>
             /\ UNCHANGED messages
  /\ UNCHANGED <<status, users, typingUsers, rooms, clock, hist, nsent>>

\* socket.on('message_seen')
MessageSeen(c, messageId) ==
  /\ status[c] = "open"
  /\ ev' = [op |-> "message_seen", c |-> c]
  /\ LET i == FindIndex(messages, messageId)
     IN IF Has(users, c) /\ i # 0
           /\ ~Includes(messages[i].seenBy, Get(users, c).username)
        THEN /\ messages' = [messages EXCEPT
                               ![i].seenBy = Append(@, Get(users, c).username)]
             /\ out' = << Emit("message_seen_update", messages[i].room,
                               InRoom(rooms, status, messages[i].room),
                               [messageId |-> messageId,
                                seenBy |-> messages'[i].seenBy]) >>
        ELSE /\ out' = << >>
             /\ UNCHANGED messages
  /\ UNCHANGED <<status, users, typingUsers, rooms, clock, hist, nsent>>

\* Faulty variant: the typing entry is not deleted.
Disconnect_KeepsTyping(c) ==
  /\ status[c] = "open"
  /\ status' = [status EXCEPT ![c] = "closed"]
  /\ rooms' = [rooms EXCEPT ![c] = {}]
  /\ ev' = [op |-> "disconnect", c |-> c]
  /\ IF Has(users, c)
     THEN LET user == Get(users, c)
          IN /\ users' = Delete(users, c)
             /\ out' = << Emit("user_list", user.room,
                               InRoom(rooms', status', user.room),
                               RoomUsers(users', user.room)),
                          Emit("user_left", user.room,
                               InRoom(rooms', status', user.room),
                               [username |-> user.username]) >>
     ELSE /\ out' = << >>
          /\ UNCHANGED users
  /\ UNCHANGED <<messages, typingUsers, clock, hist, nsent>>

\* socket.on('disconnect'): fired once, after the socket has left its rooms
Disconnect(c) ==
  /\ status[c] = "open"
  /\ status' = [status EXCEPT ![c] = "closed"]
  /\ rooms' = [rooms EXCEPT ![c] = {}]
  /\ ev' = [op |-> "disconnect", c |-> c]
  /\ IF Has(users, c)
     THEN LET user == Get(users, c)
          IN /\ users' = Delete(users, c)
             /\ typingUsers' = Delete(typingUsers, c)
             /\ out' = << Emit("user_list", user.room,
                               InRoom(rooms', status', user.room),
                               RoomUsers(users', user.room)),
                          Emit("user_left", user.room,
                               InRoom(rooms', status', user.room),
                               [username |-> user.username]) >>
     ELSE /\ out' = << >>
          /\ UNCHANGED <<users, typingUsers>>
  /\ UNCHANGED <<messages, clock, hist, nsent>>

\* ---------------------------------------------------------------- inputs
\* Payloads of private_message as handleSend builds them (lines 94-100)
PrivateData == {[text |-> "hi", image |-> "", to |-> t] : t \in Conns}
\* Message ids a client can name: the clock values
Ids == 1..MaxClock
ReactTotal ==
  LET RECURSIVE Sum(_)
      Sum(i) == IF i = 0 THEN 0
                ELSE Sum(i - 1) + messages[i].reactions["up"]
                                + messages[i].reactions["heart"]
  IN Sum(Len(messages))

\* The display name each socket's client joins under where names are fixed.
NameOf(c) == IF c = "s1" THEN "alice" ELSE "bob"

\* The send budget applies once the sender has joined (an unjoined send stores nothing).
MaySend(c, max) == Has(users, c) => nsent < max
Hi == [text |-> "hi", image |-> ""]

\* A step of the server alone: the Apps are left out and evictions not noted.
ServerOnly == UNCHANGED <<gone, client>>

\* Rooms: joins to any room, typing, traffic and disconnects, one name per
\* socket, little traffic.
Next ==
  \/ \E c \in Conns : Connect(c) /\ ServerOnly
  \/ \E c \in Conns, r \in Rooms : Join(c, NameOf(c), r) /\ ServerOnly
  \/ \E c \in Conns : MaySend(c, MaxRouted) /\ SendMessage(c, Hi) /\ ServerOnly
  \/ \E c \in Conns, b \in BOOLEAN : Typing(c, b) /\ ServerOnly
  \/ \E c \in Conns, id \in Ids, e \in Emojis :
       ReactTotal < MaxRouted /\ MessageReaction(c, id, e) /\ ServerOnly
  \/ \E c \in Conns, id \in Ids : MessageSeen(c, id) /\ ServerOnly
  \/ \E c \in Conns : Disconnect(c) /\ ServerOnly

Spec == Init /\ [][Next]_vars

\* Guards: every event of a socket, joined to the one room or not, with
\* every payload.
NextGuard ==
  \/ \E c \in Conns : Connect(c) /\ ServerOnly
  \/ \E c \in Conns : Join(c, NameOf(c), "General") /\ ServerOnly
  \/ \E c \in Conns, d \in SendData :
       MaySend(c, MaxRouted) /\ SendMessage(c, d) /\ ServerOnly
  \/ \E c \in Conns, d \in PrivateData : PrivateMessage(c, d) /\ ServerOnly
  \/ \E c \in Conns, b \in BOOLEAN : Typing(c, b) /\ ServerOnly
  \/ \E c \in Conns, id \in Ids, e \in Emojis :
       ReactTotal < MaxRouted /\ MessageReaction(c, id, e) /\ ServerOnly
  \/ \E c \in Conns, id \in Ids : MessageSeen(c, id) /\ ServerOnly
  \/ \E c \in Conns : Disconnect(c) /\ ServerOnly

SpecGuard == Init /\ [][NextGuard]_vars

\* The store: sends past the capacity in any room as the clock advances.
NextStore ==
  \/ Tick /\ ServerOnly
  \/ \E c \in Conns : Connect(c) /\ ServerOnly
  \/ \E c \in Conns, r \in Rooms : Join(c, NameOf(c), r) /\ ServerOnly
  \/ \E c \in Conns : MaySend(c, MaxSent) /\ SendMessage(c, Hi) /\ ServerOnly
  \/ \E c \in Conns : Disconnect(c) /\ ServerOnly

SpecStore == Init /\ [][NextStore]_vars

\* Seen receipts: sends and MarkSeen under any names, one room.
NextSeen ==
  \/ Tick /\ ServerOnly
  \/ \E c \in Conns : Connect(c) /\ ServerOnly
  \/ \E c \in Conns, n \in Names : Join(c, n, "General") /\ ServerOnly
  \/ \E c \in Conns : MaySend(c, MaxSent) /\ SendMessage(c, Hi) /\ ServerOnly
  \/ \E c \in Conns, id \in Ids : MessageSeen(c, id) /\ ServerOnly
  \/ \E c \in Conns : Disconnect(c) /\ ServerOnly

SpecSeen == Init /\ [][NextSeen]_vars

\* Reactions: sends and reactions, one name per socket, one room.
NextReact ==
  \/ Tick /\ ServerOnly
  \/ \E c \in Conns : Connect(c) /\ ServerOnly
  \/ \E c \in Conns : Join(c, NameOf(c), "General") /\ ServerOnly
  \/ \E c \in Conns : MaySend(c, MaxSent) /\ SendMessage(c, Hi) /\ ServerOnly
  \/ \E c \in Conns, id \in Ids, e \in Emojis :
       ReactTotal < MaxReact /\ MessageReaction(c, id, e) /\ ServerOnly

SpecReact == Init /\ [][NextReact]_vars

\* Names: joins and re-joins under any name, typing, disconnects, one room.
NextNames ==
  \/ \E c \in Conns : Connect(c) /\ ServerOnly
  \/ \E c \in Conns, n \in Names : Join(c, n, "General") /\ ServerOnly
  \/ \E c \in Conns, b \in BOOLEAN : Typing(c, b) /\ ServerOnly
  \/ \E c \in Conns : Disconnect(c) /\ ServerOnly

SpecNames == Init /\ [][NextNames]_vars

\* history: the message that send_message shifts out (line 357) is noted
NoteShift ==
  gone' = IF nsent' > nsent /\ Len(messages) + 1 > Capacity
          THEN gone \cup {messages[1].id}
          ELSE gone

\* Evictions: sends past the capacity, then reactions and MarkSeen on any id.
NextEvict ==
  \/ Tick /\ UNCHANGED <<gone, client>>
  \/ \E c \in Conns : Connect(c) /\ UNCHANGED <<gone, client>>
  \/ \E c \in Conns : Join(c, NameOf(c), "General") /\ UNCHANGED <<gone, client>>
  \/ \E c \in Conns :
       MaySend(c, MaxSent) /\ SendMessage(c, Hi) /\ NoteShift /\ UNCHANGED client
  \/ \E c \in Conns, id \in Ids, e \in Emojis :
       ReactTotal < MaxRouted /\ MessageReaction(c, id, e)
                              /\ UNCHANGED <<gone, client>>
  \/ \E c \in Conns, id \in Ids : MessageSeen(c, id) /\ UNCHANGED <<gone, client>>

SpecEvict == Init /\ [][NextEvict]_vars

\* ---------------------------------------------------------------- the App
\* The ids the "mark messages as seen" effect emits for a message list
\* (lines 32-38); the App's room is 'General' throughout (line 7).
SeenIds(list, c) ==
  LET kept == SelectSeq(list, LAMBDA m : m.room = "General" /\ m.senderId # c)
  IN [i \in 1..Len(kept) |-> kept[i].id]

\* setMessages(list), and the effect the changed list triggers: its emits
\* wait, in order, for the server to handle them
SetMessages(app, c, list) ==
  [app EXCEPT !.messages = list, !.pend = @ \o SeenIds(list, c)]

\* prev.map(m => m.id === messageId ? { ...m, seenBy } : m)
WithSeenBy(list, messageId, seenBy) ==
  [i \in 1..Len(list) |->
     IF list[i].id = messageId THEN [list[i] EXCEPT !.seenBy = seenBy]
     ELSE list[i]]

\* The listeners of lines 42-62 that keep the message list and the user
\* list (typing names, private messages and notifications are not kept here)
On(app, c, name, payload) ==
  CASE name = "receive_message" ->
         SetMessages(app, c, Append(app.messages, payload))
    [] name = "user_list" -> [app EXCEPT !.users = payload]
    [] name = "message_seen_update" ->
         SetMessages(app, c,
                     WithSeenBy(app.messages, payload.messageId, payload.seenBy))
    [] OTHER -> app

\* The App of socket c handles, in order, the emissions o[k], o[k+1], ...
\* that reach it.
RECURSIVE Handle(_, _, _, _)
Handle(app, c, o, k) ==
  IF k > Len(o) THEN app
  ELSE IF c \in o[k].to
       THEN Handle(On(app, c, o[k].name, o[k].payload), c, o, k + 1)
       ELSE Handle(app, c, o, k + 1)

\* The emissions of the handler reach the Apps of the connected sockets; the
\* page of a closed socket is gone.
Relay(apps) ==
  client' = [c \in Conns |->
               IF status'[c] = "open" THEN Handle(apps[c], c, out', 1)
               ELSE Mounted]

\* The history fetch of lines 18-22 resolves.
Fetch(c) ==
  /\ status[c] = "open"
  /\ ~client[c].fetched
  /\ client' = [client EXCEPT ![c] =
                  SetMessages([@ EXCEPT !.fetched = TRUE], c,
                              ApiMessages(messages, "General"))]
  /\ out' = << >>
  /\ ev' = [op |-> "fetch", c |-> c]
  /\ UNCHANGED <<status, users, messages, typingUsers, rooms, clock, hist,
                 nsent, gone>>

\* Faulty variant: the handled emit stays in the queue.
EmitSeen_NoPop(c) ==
  /\ client[c].pend # << >>
  /\ MessageSeen(c, Head(client[c].pend))
  /\ Relay(client)
  /\ UNCHANGED gone

\* The server handles the oldest message_seen the App of c has emitted.
EmitSeen(c) ==
  /\ client[c].pend # << >>
  /\ MessageSeen(c, Head(client[c].pend))
  /\ Relay([client EXCEPT ![c].pend = Tail(@)])
  /\ UNCHANGED gone

\* A socket's events are handled in the order it emitted them: an input of
\* its user comes after the emits that wait.
Idle(c) == client[c].pend = << >>

\* User lists: joins to any room and disconnects, the Apps listening.
NextList ==
  \/ \E c \in Conns : Connect(c) /\ Relay(client) /\ UNCHANGED gone
  \/ \E c \in Conns, r \in Rooms :
       Join(c, NameOf(c), r) /\ Relay(client) /\ UNCHANGED gone
  \/ \E c \in Conns : Disconnect(c) /\ Relay(client) /\ UNCHANGED gone

SpecList == Init /\ [][NextList]_vars

\* The chat: sockets with their Apps in the one room the App knows, sends,
\* reactions, and the seen receipts the Apps emit by themselves, all within
\* one tick of the clock.
NextChat ==
  \/ \E c \in Conns : Connect(c) /\ Relay(client) /\ UNCHANGED gone
  \/ \E c \in Conns : Fetch(c)
  \/ \E c \in Conns :
       Idle(c) /\ Join(c, NameOf(c), "General") /\ Relay(client) /\ UNCHANGED gone
  \/ \E c \in Conns :
       /\ Idle(c) /\ MaySend(c, MaxRouted)
       /\ SendMessage(c, Hi) /\ Relay(client) /\ NoteShift
  \/ \E c \in Conns, id \in Ids, e \in Emojis :
       /\ Idle(c) /\ ReactTotal < MaxRouted
       /\ MessageReaction(c, id, e) /\ Relay(client) /\ UNCHANGED gone
  \/ \E c \in Conns : EmitSeen(c)
  \/ \E c \in Conns : Disconnect(c) /\ Relay(client) /\ UNCHANGED gone

\* The server handles every event a connected socket has emitted.
SpecChat == Init /\ [][NextChat]_vars /\ WF_vars(\E c \in Conns : EmitSeen(c))

\* ------------------------------------------------------------ the join form
\* What the username field can hold: strings of at most MaxNameLen characters,
\* a string being the sequence of its characters.
Chars == {" ", "a"}
UserNames == UNION {[1..n -> Chars] : n \in 0..MaxNameLen}

\* String.prototype.trim(): the string without its leading and trailing spaces
RECURSIVE TrimStart(_)
TrimStart(str) ==
  IF str # << >> /\ Head(str) = " " THEN TrimStart(Tail(str)) ELSE str
RECURSIVE TrimEnd(_)
TrimEnd(str) ==
  IF str # << >> /\ str[Len(str)] = " "
  THEN TrimEnd(SubSeq(str, 1, Len(str) - 1))
  ELSE str
Trim(str) == TrimEnd(TrimStart(str))

\* Faulty variant: the form emits user_join whatever the field holds.
joinChat_NoTrim(c, username, room) ==
  /\ status[c] = "open"
  /\ ~Has(users, c)
  /\ Join(c, username, room)

\* joinChat (lines 67-72), the click on "Join Chat"; the form is rendered
\* while the client has not joined (line 135)
joinChat(c, username, room) ==
  /\ status[c] = "open"
  /\ ~Has(users, c)
  /\ IF Trim(username) # << >>
     THEN Join(c, username, room)
     ELSE /\ out' = << >>
          /\ ev' = [op |-> "joinChat", c |-> c, username |-> username]
          /\ UNCHANGED <<status, users, messages, typingUsers, rooms, clock,
                         hist, nsent>>

\* The join form: every socket joins through joinChat, types, disconnects.
NextForm ==
  \/ \E c \in Conns : Connect(c) /\ ServerOnly
  \/ \E c \in Conns, n \in UserNames : joinChat(c, n, "General") /\ ServerOnly
  \/ \E c \in Conns, b \in BOOLEAN : Typing(c, b) /\ ServerOnly
  \/ \E c \in Conns : Disconnect(c) /\ ServerOnly

SpecForm == Init /\ [][NextForm]_vars

\* ------------------------------------------------------------ properties
\* The three stores of the server.
stores == <<users, messages, typingUsers>>
\* The events a room broadcast carries.
RoomEvents == {"receive_message", "user_list", "user_joined", "user_left",
               "typing_users", "message_seen_update"}
\* How many emissions of the last handler carry the event.
Emitted(o, name) == Cardinality({k \in 1..Len(o) : o[k].name = name})
\* How many entries of a listing belong to the socket.
Listed(list, c) == Cardinality({k \in 1..Len(list) : list[k].id = c})

C3_BroadcastOnlyToRoom ==
  \A k \in 1..Len(out) :
    out[k].name \in RoomEvents =>
      \A c \in out[k].to : Has(users, c) /\ Get(users, c).room = out[k].target

\* C4: no connection has two registry entries, and after a Join the socket
\* has one entry, with the room just joined, listed once in that room's
\* participant listing and in no other room's.
C4_JoinReplaces ==
  /\ \A c \in Conns : Listed(users, c) <= 1
  /\ ev.op = "user_join" =>
       LET c == ev.c
           r == out[1].target
       IN /\ Listed(users, c) = 1
          /\ Get(users, c).room = r
          /\ out[1].payload = RoomUsers(users, r)
          /\ \A q \in Rooms :
               Listed(RoomUsers(users, q), c) = IF q = r THEN 1 ELSE 0

\* C4 witness: a socket has just joined a second, different room.
C4_Witness ==
  /\ ev.op = "user_join"
  /\ Cardinality(rooms[ev.c]) = 2
  /\ Len(users) = 2

\* C9: a Disconnect of a joined connection removes it from the registry and
\* from the typing state and emits, to its former room, the updated UserList
\* and exactly one UserLeft; a Disconnect of a connection that never joined
\* changes no store and emits nothing.
C9_DisconnectCleanup ==
  [][ ev'.op = "disconnect" =>
        LET c == ev'.c
        IN IF Has(users, c)
           THEN LET r == Get(users, c).room
                IN /\ ~Has(users', c)
                   /\ ~Has(typingUsers', c)
                   /\ \A q \in Rooms : Listed(RoomUsers(users', q), c) = 0
                   /\ Emitted(out', "user_left") = 1
                   /\ Emitted(out', "user_list") = 1
                   /\ Len(out') = 2
                   /\ \A k \in 1..2 : out'[k].target = r
                   /\ \E k \in 1..2 :
                        /\ out'[k].name = "user_list"
                        /\ out'[k].payload = RoomUsers(users', r)
                   /\ \E k \in 1..2 :
                        /\ out'[k].name = "user_left"
                        /\ out'[k].payload.username = Get(users, c).username
           ELSE UNCHANGED stores /\ out' = << >> ]_vars

\* C9 witness: a socket that was joined and typing has disconnected while
\* the other socket is in the room and typing.
C9_Witness ==
  /\ ev.op = "disconnect"
  /\ Len(out) = 2
  /\ out[1].to # {}
  /\ Len(typingUsers) = 1

\* C10 (as stated): no Send without text and without a media URL is stored
\* or broadcast.
C10_EmptySendRejected ==
  /\ \A i \in 1..Len(messages) :
       ~(messages[i].text = "" /\ messages[i].image = "")
  /\ \A k \in 1..Len(out) :
       out[k].name = "receive_message" =>
         ~(out[k].payload.text = "" /\ out[k].payload.image = "")

\* C2 (as stated): the ids of the stored messages are pairwise distinct.
C2_IdsDistinct ==
  \A i, j \in 1..Len(messages) : i # j => messages[i].id # messages[j].id

Min(a, b) == IF a < b THEN a ELSE b
\* array prefix
IsPrefix(a, b) == Len(a) <= Len(b) /\ \A k \in 1..Len(a) : a[k] = b[k]
\* The stored message with the given append number, in a state's store.
Stored(h, n) == {i \in 1..Len(h) : h[i].seq = n}

\* The stored messages as the history query reads them (it reads only the
\* room), each tagged with its append number.
Tagged ==
  [i \in 1..Len(messages) |-> [room |-> messages[i].room, seq |-> hist[i].seq]]

\* C5: the store never holds more than Capacity messages, and it holds the
\* most recently appended ones in append order: after n appends, the
\* messages numbered n - Len + 1 .. n.  The history query returns each
\* stored message in its room, oldest first, and none of the evicted ones.
C5_BoundedOldestFirst ==
  /\ Len(messages) = Min(nsent, Capacity)
  /\ Len(hist) = Len(messages)
  /\ \A i \in 1..Len(messages) : hist[i].seq = nsent - Len(messages) + i
  /\ \A r \in Rooms :
       LET got == ApiMessages(Tagged, r)
       IN /\ \A k \in 1..Len(got) :
               /\ got[k].room = r
               /\ got[k].seq > nsent - Capacity
               /\ got[k].seq <= nsent
               /\ \A l \in 1..(k - 1) : got[l].seq < got[k].seq
          /\ \A i \in 1..Len(messages) :
               messages[i].room = r => \E k \in 1..Len(got) : got[k].seq = hist[i].seq

\* C5 witness: more messages were appended than the store holds.
C5_Witness ==
  /\ nsent > Capacity
  /\ Len(messages) = Capacity
  /\ ev.op = "send_message"
  /\ hist[1].seq = nsent - Capacity + 1
  /\ \E i, j \in 1..Len(messages) : messages[i].room # messages[j].room

\* C6: seenBy of a stored message never holds a name twice and never loses
\* a name while the message is stored, and a MarkSeen by a name already in
\* a message's seenBy leaves that seenBy as it was.
C6_SeenMonotone ==
  /\ [](\A i \in 1..Len(messages) :
          \A k, l \in 1..Len(messages[i].seenBy) :
            k # l => messages[i].seenBy[k] # messages[i].seenBy[l])
  /\ [][ \A i \in 1..Len(messages) : \A j \in Stored(hist', hist[i].seq) :
           /\ IsPrefix(messages[i].seenBy, messages'[j].seenBy)
           /\ (/\ ev'.op = "message_seen"
               /\ Has(users, ev'.c)
               /\ Includes(messages[i].seenBy, Get(users, ev'.c).username))
              => messages'[j].seenBy = messages[i].seenBy ]_vars

\* C6 witness: a joined participant whose name is already in the seenBy of
\* every stored message, one of them with two names, has sent MarkSeen again.
C6_Witness ==
  /\ ev.op = "message_seen"
  /\ Has(users, ev.c)
  /\ out = << >>
  /\ messages # << >>
  /\ \A i \in 1..Len(messages) :
       Includes(messages[i].seenBy, Get(users, ev.c).username)
  /\ \E i \in 1..Len(messages) : Len(messages[i].seenBy) = 2

\* C7: a MarkSeen emits one SeenUpdate when it adds the caller's name to a
\* message's seenBy and none otherwise; the update is addressed to that
\* message's room and carries the message's id and its seenBy after the add.
C7_SeenUpdateIffAdded ==
  [][ ev'.op = "message_seen" =>
        /\ Len(messages') = Len(messages)
        /\ Emitted(out', "message_seen_update")
             = (IF messages' # messages THEN 1 ELSE 0)
        /\ Len(out') = Emitted(out', "message_seen_update")
        /\ Cardinality({i \in 1..Len(messages) : messages'[i] # messages[i]}) <= 1
        /\ \A i \in 1..Len(messages) :
             messages'[i] # messages[i] =>
               /\ messages'[i].seenBy
                    = Append(messages[i].seenBy, Get(users, ev'.c).username)
               /\ out'[1].target = messages[i].room
               /\ out'[1].payload.messageId = messages[i].id
               /\ out'[1].payload.seenBy = messages'[i].seenBy ]_vars

\* C7 witness: a first MarkSeen by a participant who has since moved to
\* another room has added a second name, and the SeenUpdate went to the
\* message's room.
C7_Witness ==
  /\ ev.op = "message_seen"
  /\ Len(out) = 1
  /\ out[1].name = "message_seen_update"
  /\ Len(out[1].payload.seenBy) = 2
  /\ Has(users, ev.c)
  /\ Get(users, ev.c).room # out[1].target

\* C8 (as stated): for every stored message and emoji, the count equals the
\* number of React events carrying that message's id and that emoji handled
\* while the message was stored.
C8_ReactionCountExact ==
  \A i \in 1..Len(messages) : \A e \in Emojis :
    messages[i].reactions[e] = hist[i].reacted[e]

C16_PrivateCarriesText ==
  [][\A c \in Conns, d \in PrivateData :
       (Has(users, c) /\ d.text # "" /\ PrivateMessage(c, d)) =>
         \A k \in 1..Len(out') : out'[k].payload.message = d.text]_vars

\* C15: the seenBy of every stored message contains the display name of its
\* sender, from creation on, whatever React and MarkSeen follow.
C15_SenderHasSeen ==
  \A i \in 1..Len(messages) : Includes(messages[i].seenBy, messages[i].sender)

\* A stored message has been reacted to and marked seen by someone else.
C15_Witness ==
  \E i \in 1..Len(messages) :
    /\ Len(messages[i].seenBy) > 1
    /\ \E e \in Emojis : messages[i].reactions[e] > 0

\* The sockets with a typing entry whose current room is the given one.
TypingIn(room) ==
  {c \in Conns : Has(typingUsers, c) /\ Has(users, c) /\ Get(users, c).room = room}

C17_TypingNameCurrent ==
  \A i \in 1..Len(typingUsers) :
    /\ Has(users, typingUsers[i].id)
    /\ typingUsers[i].name = Get(users, typingUsers[i].id).username

\* C12: a React or MarkSeen carrying the id of a message that was evicted
\* from the store finds nothing: no stored message changes and nothing is
\* emitted.
C12_EvictedNotFound ==
  [][\A c \in Conns, id \in gone :
       (\/ \E e \in Emojis : MessageReaction(c, id, e)
        \/ MessageSeen(c, id)) =>
         /\ UNCHANGED messages
         /\ out' = << >>]_vars

\* The names the seenBy lists of the stored messages hold, counted with
\* their repetitions.
SeenTotal ==
  LET RECURSIVE Sum(_)
      Sum(i) == IF i = 0 THEN 0 ELSE Sum(i - 1) + Len(messages[i].seenBy)
  IN Sum(Len(messages))

\* C20: the seen-receipt loop between the Apps and the server quiesces.  Every
\* seen update adds one name to a stored message's seenBy, which holds each
\* display name at most once, so the updates are bounded by stored messages
\* times display names; and from some point on no App has a message_seen
\* waiting, so no further update is emitted.
C20_SeenLoopQuiesces ==
  /\ [][(ev'.op = "message_seen" /\ out' # << >>) =>
         /\ Emitted(out', "message_seen_update") = 1
         /\ Len(messages') = Len(messages)
         /\ SeenTotal' = SeenTotal + 1]_vars
  /\ [](\A i \in 1..Len(messages) :
         Len(messages[i].seenBy) <= Cardinality(Names))
  /\ <>[](\A c \in Conns : client[c].pend = << >>)

\* A seen update has just changed the list of an App, whose effect emitted
\* message_seen again.
C20_Witness ==
  /\ ev.op = "message_seen"
  /\ Emitted(out, "message_seen_update") = 1
  /\ \E c \in out[1].to :
       /\ client[c].pend # << >>
       /\ \E i \in 1..Len(client[c].messages) :
            Len(client[c].messages[i].seenBy) > 1

\* C18: the user list last delivered to the App of every joined socket is the
\* current set of participants of that socket's room.
C18_UserListCurrent ==
  \A c \in Conns :
    Has(users, c) =>
      {client[c].users[i] : i \in 1..Len(client[c].users)}
        = {u \in {users[i] : i \in 1..Len(users)} : u.room = Get(users, c).room}

\* C19: the message list of an App holds at most one entry per message the
\* server created, and a React adds no entry to it.
C19_OneEntryPerMessage ==
  /\ [](\A c \in Conns : Len(client[c].messages) <= nsent)
  /\ [][ev'.op = "message_reaction" =>
         \A c \in Conns :
           Len(client'[c].messages) = Len(client[c].messages)]_vars

====
